---- MODULE Spec2Model ----
(***************************************************************************)
(* Model of backend/main.py: the ConnectionManager broadcast registry, the *)
(* /stream session (stream_events / event_generator), the pipeline run     *)
(* (run_full_pipeline) and the room geometry parser (parse_room_data).     *)
(*                                                                         *)
(* The specifications share the variables below:                           *)
(*   GeomSpec  parse_room_data applied to bounded detection payloads;      *)
(*   ApiSpec   the ConnectionManager driven by arbitrary callers;          *)
(*   BusSpec   stream sessions with events published from outside         *)
(*             (LiveBusSpec adds the fairness of the sessions' steps);     *)
(*   LoopSpec  stream sessions and tasks whose broadcast calls are         *)
(*             followed put by put;                                        *)
(*   RunSpec   one pipeline run in full depth beside a stream session      *)
(*             (LiveRunSpec adds the event loop's fairness to the run);    *)
(*   Spec      the running program: stream sessions and concurrent         *)
(*             pipeline runs on one event loop.                            *)
(***************************************************************************)
EXTENDS Integers, Sequences, FiniteSets

VARIABLES
  \* ---- parse_room_data (one call) ----
  predicted_str,      \* the model's detection text handed to parse_room_data
  img_height,         \* keyword argument img_height
  img_width,          \* keyword argument img_width
  expand_percent,     \* keyword argument expand_percent
  items,              \* elements of parse_json_output(predicted_str)
  idx,                \* number of loop iterations of `for item in items` done
  rooms,              \* the list `rooms` built by the loop
  ppc,                \* position of the call: "start", "loop", "returned", "raised"
  \* ---- ConnectionManager ----
  active_connections, \* manager.active_connections: a list of queues
  queue,              \* contents of every asyncio.Queue created so far (by queue)
  raised,             \* exception raised by the last manager call to its caller
  published,          \* history: every broadcast with the registry it met
  bcast,              \* the broadcast call in progress, when followed put by put
  \* ---- stream_events sessions ----
  spc,                \* position of each session
  transport,          \* TRUE while the viewer's connection is open
  first_sent,         \* history: the first item each session's generator yielded
  \* ---- run_full_pipeline runs ----
  rpc,                \* position of each run
  run_rooms,          \* the list `rooms` of each run (bbox per room)
  room_i,             \* index of the room the per-room loop is at
  furnished,          \* rooms of the run that carry "furnished_iso_img"
  assembly_inputs,    \* image inputs of the run's final assembly call
  log                 \* history: the events each run has handed to stream_event

geomVars == <<predicted_str, img_height, img_width, expand_percent, items, idx, rooms, ppc>>
busVars  == <<active_connections, queue, raised, published, bcast>>
sessVars == <<spc, transport, first_sent>>
runVars  == <<rpc, run_rooms, room_i, furnished, assembly_inputs, log>>
vars     == <<geomVars, busVars, sessVars, runVars>>

----------------------------------------------------------------------------
(* Small helpers.                                                          *)

Min(a, b) == IF a < b THEN a ELSE b

Max(a, b) == IF a > b THEN a ELSE b

\* Python's int() on a float: truncation toward zero of num / den (den > 0).
Trunc(num, den) == IF num >= 0 THEN num \div den ELSE -((-num) \div den)

----------------------------------------------------------------------------
(* Geometry: parse_json_output and parse_room_data.                        *)

\* The 0..1000 scale of box_2d coordinates.
NormScale == 1000

\* expand_percent is a percentage.
PercentBase == 100

\* Default of the keyword argument expand_percent.
DefaultExpandPercent == 5

\* int(c / 1000 * dim).  The float expression equals the truncated exact
\* quotient for every dim <= 24 and every c in -500..1500 (the first
\* dimension where rounding shows is 25: int(1160 / 1000 * 25) = 28).
Rescale(c, dim) == Trunc(c * dim, NormScale)

\* max(0, int(lo - d)) with d = (hi - lo) * (expand_percent / 100) / 2.
ExpandLo(lo, hi, p) ==
  Max(0, Trunc(2 * PercentBase * lo - (hi - lo) * p, 2 * PercentBase))

\* The upper clamp of the expansion without its min(): a box may leave the image.
ExpandHiUnclamped(lo, hi, p, dim) ==
  Trunc(2 * PercentBase * hi + (hi - lo) * p, 2 * PercentBase)

\* min(dim, int(hi + d)) with d = (hi - lo) * (expand_percent / 100) / 2.
ExpandHi(lo, hi, p, dim) ==
  Min(dim, Trunc(2 * PercentBase * hi + (hi - lo) * p, 2 * PercentBase))

\* What `y0, x0, y1, x1 = [int(c) for c in item["box_2d"]]` raises for an
\* entry, by the entry's shape:
\*   "not_object"    a number, string, null or list: item["box_2d"] is a TypeError;
\*   "no_box"        an object without the key: KeyError;
\*   "box_not_list"  box_2d is a number or null: iterating it is a TypeError;
\*   "null_coord"    a coordinate is null (or a list): int(None) is a TypeError;
\*   "text_coord"    a coordinate is a non-numeric string: int("abc") is a ValueError;
\*   "box_short"     other than four coordinates: the unpacking is a ValueError;
\*   "ok"            an object with a box_2d of four integers: nothing.
UnpackError(item) ==
  CASE item.kind = "not_object"   -> "TypeError"
    [] item.kind = "no_box"       -> "KeyError"
    [] item.kind = "box_not_list" -> "TypeError"
    [] item.kind = "null_coord"   -> "TypeError"
    [] item.kind = "text_coord"   -> "ValueError"
    [] item.kind = "box_short"    -> "ValueError"
    [] OTHER                      -> "none"

\* except (KeyError, IndexError, ValueError).
Caught == {"KeyError", "IndexError", "ValueError"}

\* The loop body with the degeneracy test made on the expanded coordinates.
ParseItemTestsAfterExpansion(item, h, w, p) ==
  IF UnpackError(item) \in Caught THEN [outcome |-> "skip"]
  ELSE IF UnpackError(item) # "none" THEN [outcome |-> "raise", exc |-> UnpackError(item)]
  ELSE
    LET b  == item.box_2d
        y0 == Rescale(b[1], h)
        x0 == Rescale(b[2], w)
        y1 == Rescale(b[3], h)
        x1 == Rescale(b[4], w)
        ey0 == IF p > 0 THEN ExpandLo(y0, y1, p) ELSE y0
        ex0 == IF p > 0 THEN ExpandLo(x0, x1, p) ELSE x0
        ey1 == IF p > 0 THEN ExpandHi(y0, y1, p, h) ELSE y1
        ex1 == IF p > 0 THEN ExpandHi(x0, x1, p, w) ELSE x1
    IN  IF ey0 >= ey1 \/ ex0 >= ex1 THEN [outcome |-> "skip"]
        ELSE [outcome |-> "room", room |-> [y0 |-> ey0, x0 |-> ex0, y1 |-> ey1, x1 |-> ex1]]

\* One iteration of `for item in items`: the room appended, a skip (continue),
\* or an exception the except clause does not catch, which leaves the function.
ParseItem(item, h, w, p) ==
  IF UnpackError(item) \in Caught THEN [outcome |-> "skip"]
  ELSE IF UnpackError(item) # "none" THEN [outcome |-> "raise", exc |-> UnpackError(item)]
  ELSE
    LET b  == item.box_2d
        y0 == Rescale(b[1], h)
        x0 == Rescale(b[2], w)
        y1 == Rescale(b[3], h)
        x1 == Rescale(b[4], w)
    IN  IF y0 >= y1 \/ x0 >= x1 THEN [outcome |-> "skip"]
        ELSE IF p > 0
          THEN [outcome |-> "room",
                room |-> [y0 |-> ExpandLo(y0, y1, p), x0 |-> ExpandLo(x0, x1, p),
                          y1 |-> ExpandHi(y0, y1, p, h), x1 |-> ExpandHi(x0, x1, p, w)]]
          ELSE [outcome |-> "room", room |-> [y0 |-> y0, x0 |-> x0, y1 |-> y1, x1 |-> x1]]

\* The empty list.
EmptyList == [json |-> "list", items |-> << >>]

\* parse_json_output: the fenced block is unwrapped, then json.loads, whose
\* value is returned whatever its type; a JSONDecodeError gives [].  A text
\* is held as the kind of value json.loads finds in it ("list", "object",
\* "scalar", or "bad_json" when it raises) and the value's elements.
parse_json_output(text) ==
  IF text.json = "bad_json" THEN EmptyList ELSE text

\* `for item in items`: a list gives its elements, a dict its keys (strings,
\* held as "not_object" entries); a number, null or boolean is not iterable.
Iterates(value) == value.json \in {"list", "object"}

\* The loop over its: the rooms of the entries in input order, or the first
\* exception that is not caught.
RECURSIVE RoomsOf(_, _, _, _)
RoomsOf(its, h, w, p) ==
  IF its = << >> THEN [exc |-> "none", rooms |-> << >>]
  ELSE LET r == ParseItem(Head(its), h, w, p)
       IN  IF r.outcome = "raise" THEN [exc |-> r.exc, rooms |-> << >>]
           ELSE LET rest == RoomsOf(Tail(its), h, w, p)
                IN  IF rest.exc # "none" THEN rest
                    ELSE [exc |-> "none",
                          rooms |-> (IF r.outcome = "room" THEN <<r.room>> ELSE << >>) \o rest.rooms]

\* parse_room_data as a function of its arguments: the rooms returned
\* (exc = "none"), or the exception that reaches the caller.
parse_room_data(text, h, w, p) ==
  IF Iterates(parse_json_output(text))
    THEN RoomsOf(parse_json_output(text).items, h, w, p)
    ELSE [exc |-> "TypeError", rooms |-> << >>]


\* ---- bounded inputs of parse_room_data ----

\* Longest detection list built from CoreEntries.
MaxItems == 2

\* Image sizes (width or height) tried.
Dims == {8, 20}

\* expand_percent values tried: none, the default, and a large one.
ExpandPercents == {0, DefaultExpandPercent, 50}

\* box_2d coordinates tried: inside 0..1000 and outside it on either side.
Coords == {-300, 0, 250, 500, 1000, 1300}

OkEntry(y0, x0, y1, x1) == [kind |-> "ok", box_2d |-> <<y0, x0, y1, x1>>]

\* Every box over Coords, as a detection entry.
RichEntries == {OkEntry(a, b, c, d) : a \in Coords, b \in Coords, c \in Coords, d \in Coords}

\* An entry that fails at the unpacking, of the given shape.
BadEntry(kind) == [kind |-> kind, box_2d |-> << >>]

\* Entries that fail structural validation, one of each shape.
InvalidEntries ==
  { BadEntry("no_box"), [kind |-> "box_short", box_2d |-> <<0, 250, 500>>],
    BadEntry("text_coord"), BadEntry("not_object"), BadEntry("box_not_list"),
    BadEntry("null_coord") }

\* A few entries for longer lists: two proper boxes, a box whose pixel
\* coordinates are not whole before int(), a degenerate one, a box beyond the
\* 0..1000 scale, and those that fail structural validation.
CoreEntries ==
  { OkEntry(0, 250, 500, 1000), OkEntry(250, 0, 1000, 500), OkEntry(100, 100, 400, 400),
    OkEntry(250, 500, 250, 1000), OkEntry(0, 1000, 500, 1300) } \cup InvalidEntries

SeqsUpTo(S, n) == UNION {[1..k -> S] : k \in 0..n}

DetectionLists == {<<e>> : e \in RichEntries} \cup SeqsUpTo(CoreEntries, MaxItems)

BadJsonText == [json |-> "bad_json", items |-> << >>]

\* A top-level JSON object with n keys.
ObjectText(n) == [json |-> "object", items |-> [k \in 1..n |-> BadEntry("not_object")]]

\* A top-level number, null or boolean.
ScalarText == [json |-> "scalar", items |-> << >>]

\* Texts that are not a JSON list.
NonListTexts == {BadJsonText, ScalarText, ObjectText(0), ObjectText(1)}

DetectionTexts == {[json |-> "list", items |-> l] : l \in DetectionLists} \cup NonListTexts

GeomIdle ==
  /\ predicted_str = BadJsonText
  /\ img_height = 0
  /\ img_width = 0
  /\ expand_percent = DefaultExpandPercent
  /\ items = << >>
  /\ idx = 0
  /\ rooms = << >>
  /\ ppc = "idle"

\* parse_room_data is called: items = parse_json_output(predicted_str);
\* rooms = []; the for statement takes an iterator of items, or raises.
ParseBegin ==
  /\ ppc = "start"
  /\ items' = parse_json_output(predicted_str).items
  /\ idx' = 0
  /\ rooms' = << >>
  /\ ppc' = IF Iterates(parse_json_output(predicted_str)) THEN "loop" ELSE "raised"
  /\ UNCHANGED <<predicted_str, img_height, img_width, expand_percent, busVars, sessVars, runVars>>

\* One iteration of `for item in items`.
ParseStep ==
  /\ ppc = "loop"
  /\ idx < Len(items)
  /\ LET r == ParseItem(items[idx + 1], img_height, img_width, expand_percent)
     IN  /\ rooms' = IF r.outcome = "room" THEN Append(rooms, r.room) ELSE rooms
         /\ ppc' = IF r.outcome = "raise" THEN "raised" ELSE "loop"
  /\ idx' = idx + 1
  /\ UNCHANGED <<predicted_str, img_height, img_width, expand_percent, items, busVars, sessVars, runVars>>

\* `return rooms`.
ParseReturn ==
  /\ ppc = "loop"
  /\ idx = Len(items)
  /\ ppc' = "returned"
  /\ UNCHANGED <<predicted_str, img_height, img_width, expand_percent, items, idx, rooms, busVars, sessVars, runVars>>

----------------------------------------------------------------------------
(* ConnectionManager.                                                      *)

Range(s) == {s[i] : i \in DOMAIN s}

\* list.remove(q): the first occurrence of q goes.
RECURSIVE RemoveFirst(_, _)
RemoveFirst(s, q) ==
  IF s = << >> THEN << >>
  ELSE IF Head(s) = q THEN Tail(s) ELSE <<Head(s)>> \o RemoveFirst(Tail(s), q)

\* ConnectionManager.connect
Connect(conns, q) == Append(conns, q)

\* ConnectionManager.disconnect: list.remove raises ValueError when q is not
\* in the list, and the list is then untouched.
Disconnect(conns, q) ==
  IF q \in Range(conns)
    THEN [conns |-> RemoveFirst(conns, q), raised |-> "none"]
    ELSE [conns |-> conns, raised |-> "ValueError"]

\* A bounded queue of one slot: put would wait for the consumer.
PutSuspendsWhenNonEmpty(contents) == Len(contents) >= 1

\* asyncio.Queue() is built with maxsize 0, so full() is never true and
\* `await queue.put(data)` returns without suspending.
PutSuspends(contents) == FALSE

\* A put that lands in front of what the queue holds.
PutFront(contents, data) == <<data>> \o contents

\* queue.put(data): data joins the tail.
Put(contents, data) == Append(contents, data)

\* ConnectionManager.broadcast: `for queue in self.active_connections`, in list
\* order, `await queue.put(data)`; no put suspends, so the loop is one step.
RECURSIVE Broadcast(_, _, _)
Broadcast(qs, conns, data) ==
  IF conns = << >> THEN qs
  ELSE Broadcast([qs EXCEPT ![Head(conns)] = Put(@, data)], Tail(conns), data)

\* TRUE when broadcast would have to wait on some registered queue.
BroadcastSuspends(qs, conns) == \E i \in DOMAIN conns : PutSuspends(qs[conns[i]])

\* stream_event for each event of evs in turn.
RECURSIVE StreamEvents(_, _, _)
StreamEvents(qs, conns, evs) ==
  IF evs = << >> THEN qs
  ELSE StreamEvents(Broadcast(qs, conns, Head(evs)), conns, Tail(evs))

\* ---- the manager driven by arbitrary callers ----

\* Queues the callers create.
MaxQueues == 3

\* Broadcasts the callers make.
MaxPublish == 3

\* The strings the callers broadcast.
Payloads == {"e1", "e2"}

\* queue = asyncio.Queue(); await manager.connect(queue)
Subscribe ==
  /\ Cardinality(DOMAIN queue) < MaxQueues
  /\ LET q == Cardinality(DOMAIN queue) + 1
     IN  /\ queue' = [x \in DOMAIN queue \cup {q} |-> IF x = q THEN << >> ELSE queue[x]]
         /\ active_connections' = Connect(active_connections, q)
  /\ raised' = "none"
  /\ UNCHANGED <<published, bcast, geomVars, sessVars, runVars>>

\* manager.disconnect(queue) on any queue created so far.
Unsubscribe(q) ==
  /\ q \in DOMAIN queue
  /\ LET r == Disconnect(active_connections, q)
     IN  /\ active_connections' = r.conns
         /\ raised' = r.raised
  /\ UNCHANGED <<queue, published, bcast, geomVars, sessVars, runVars>>

\* await manager.broadcast(data)
Publish(data) ==
  /\ Len(published) < MaxPublish
  /\ ~BroadcastSuspends(queue, active_connections)
  /\ queue' = Broadcast(queue, active_connections, data)
  /\ published' = Append(published, [data |-> data, regs |-> Range(active_connections)])
  /\ raised' = "none"
  /\ UNCHANGED <<active_connections, bcast, geomVars, sessVars, runVars>>

\* ---- broadcast followed put by put ----

\* Tasks that call stream_event when broadcasts are followed put by put.
MaxProducers == 2

Producers == 1..MaxProducers

\* No broadcast call of the task is running.
NoBroadcast ==
  [active |-> FALSE, data |-> "", i |-> 0, regs |-> {}, got |-> << >>, yielded |-> FALSE]

\* The event loop runs another task only when the running one suspends: a
\* task can take a step when no other task is inside a broadcast call, or
\* every such call is suspended at a put.
TaskSwitch(p) ==
  \A o \in Producers : (o # p /\ bcast[o].active) => bcast[o].yielded

\* Broadcast calls entered so far.
Begun == Len(published) + Cardinality({o \in Producers : bcast[o].active})

\* The line stream_event hands to broadcast: the payload with its
\* "timestamp" (time.time()), here the rank of the call.
Stamped(data, t) == [data |-> data, timestamp |-> t]

\* Task p enters await manager.broadcast(...) from stream_event: the for
\* statement takes an iterator of self.active_connections (the live list,
\* from its first position).  regs remembers the registry at that moment.
BroadcastBegin(p, data) ==
  /\ ~bcast[p].active
  /\ TaskSwitch(p)
  /\ Begun < MaxPublish
  /\ bcast' = [bcast EXCEPT ![p] =
                 [active |-> TRUE, data |-> Stamped(data, Begun + 1), i |-> 0,
                  regs |-> Range(active_connections), got |-> << >>, yielded |-> FALSE]]
  /\ UNCHANGED <<active_connections, queue, raised, published, geomVars, sessVars, runVars>>

\* One iteration of `for queue in self.active_connections` in task p: the
\* list iterator hands out the element at its position in the list as it is
\* now, and `await queue.put(data)` follows; yielded tells whether that put
\* gave the event loop the chance to run another task.
BroadcastPut(p) ==
  /\ bcast[p].active
  /\ TaskSwitch(p)
  /\ bcast[p].i < Len(active_connections)
  /\ LET q == active_connections[bcast[p].i + 1]
     IN  /\ queue' = [queue EXCEPT ![q] = Put(@, bcast[p].data)]
         /\ bcast' = [bcast EXCEPT ![p].i = @ + 1, ![p].got = Append(@, q),
                                   ![p].yielded = PutSuspends(queue[q])]
  /\ UNCHANGED <<active_connections, raised, published, geomVars, sessVars, runVars>>

\* The iterator of task p is exhausted: broadcast returns.
BroadcastEnd(p) ==
  /\ bcast[p].active
  /\ TaskSwitch(p)
  /\ bcast[p].i >= Len(active_connections)
  /\ published' = Append(published, [data |-> bcast[p].data, regs |-> bcast[p].regs, by |-> p])
  /\ bcast' = [bcast EXCEPT ![p] = NoBroadcast]
  /\ raised' = "none"
  /\ UNCHANGED <<active_connections, queue, geomVars, sessVars, runVars>>

----------------------------------------------------------------------------
(* stream_events: one session per viewer.  Session s owns queue s.         *)
(* Positions: "idle" (no request yet), "connected" (queue registered, the  *)
(* response returned, event_generator not started), "waiting" (suspended   *)
(* at the yield or at `await queue.get()`), "done" (the session is over).  *)

\* Viewers that connect when the sessions are followed on their own (BusSpec).
MaxSessions == 2

\* Viewers that connect while pipeline runs publish (Spec, RunSpec).
MaxViewers == 1

Sessions == 1..MaxSessions

Viewers == 1..MaxViewers

\* The line of the connection confirmation (the json of type "connected").
ConnectedMsg == "connected"

\* Nothing yielded yet.
NothingSent == [sent |-> FALSE, data |-> "", pending |-> FALSE]

\* A yield of data: the first one of a generator is kept, with whether the
\* session's queue held anything at that moment.
FirstYield(fs, data, pending) ==
  IF fs.sent THEN fs ELSE [sent |-> TRUE, data |-> data, pending |-> pending]

\* GET /stream arrives: queue = asyncio.Queue(); await manager.connect(queue);
\* return StreamingResponse(event_generator()).  Sessions are numbered in
\* the order their requests arrive.
SessionOpen(s) ==
  /\ spc[s] = "idle"
  /\ \A t \in Sessions : t < s => spc[t] # "idle"
  /\ queue' = [x \in DOMAIN queue \cup {s} |-> IF x = s THEN << >> ELSE queue[x]]
  /\ active_connections' = Connect(active_connections, s)
  /\ spc' = [spc EXCEPT ![s] = "connected"]
  /\ transport' = [transport EXCEPT ![s] = TRUE]
  /\ UNCHANGED <<raised, published, bcast, first_sent, geomVars, runVars>>

\* The viewer's connection goes away.
TransportClose(s) ==
  /\ spc[s] \in {"connected", "waiting"}
  /\ transport[s]
  /\ transport' = [transport EXCEPT ![s] = FALSE]
  /\ UNCHANGED <<busVars, spc, first_sent, geomVars, runVars>>

\* A generator that sends its confirmation through manager.broadcast.
GenStartAckOnBus(s) ==
  /\ spc[s] = "connected"
  /\ spc' = [spc EXCEPT ![s] = "waiting"]
  /\ queue' = Broadcast(queue, active_connections, ConnectedMsg)
  /\ UNCHANGED <<active_connections, raised, published, bcast, transport, first_sent, geomVars, runVars>>

\* The response starts iterating event_generator: the try block is entered
\* and the "connected" message is yielded.
GenStart(s) ==
  /\ spc[s] = "connected"
  /\ spc' = [spc EXCEPT ![s] = "waiting"]
  /\ first_sent' = [first_sent EXCEPT ![s] = FirstYield(@, ConnectedMsg, queue[s] # << >>)]
  /\ UNCHANGED <<busVars, transport, geomVars, runVars>>

\* The connection ends before the response body is iterated: a generator
\* that was never started has no try block to leave, so its finally clause
\* does not run and manager.disconnect is not called.
AbortBeforeStart(s) ==
  /\ spc[s] = "connected"
  /\ ~transport[s]
  /\ spc' = [spc EXCEPT ![s] = "done"]
  /\ UNCHANGED <<busVars, transport, first_sent, geomVars, runVars>>

\* data = await queue.get() returns, request.is_disconnected() is False:
\* yield data.  (The probe suspends, but what runs meanwhile only appends to
\* queues or changes the registry, so get, probe and yield are taken as one
\* step.)
GetYield(s) ==
  /\ spc[s] = "waiting"
  /\ queue[s] # << >>
  /\ transport[s]
  /\ queue' = [queue EXCEPT ![s] = Tail(@)]
  /\ first_sent' = [first_sent EXCEPT ![s] = FirstYield(@, Head(queue[s]), TRUE)]
  /\ UNCHANGED <<active_connections, raised, published, bcast, spc, transport, geomVars, runVars>>

\* The finally clause of event_generator: manager.disconnect(queue).  The
\* generator is finished and its queue is dropped with it.
Finally(s) ==
  LET r == Disconnect(active_connections, s)
  IN  /\ active_connections' = r.conns
      /\ raised' = r.raised
      /\ queue' = [x \in DOMAIN queue \ {s} |-> queue[x]]
      /\ spc' = [spc EXCEPT ![s] = "done"]

\* data = await queue.get() returns, request.is_disconnected() is True:
\* break, then the finally clause.
GetBreak(s) ==
  /\ spc[s] = "waiting"
  /\ queue[s] # << >>
  /\ ~transport[s]
  /\ Finally(s)
  /\ UNCHANGED <<published, bcast, transport, first_sent, geomVars, runVars>>

\* The started generator is cancelled or closed where it is suspended
\* (CancelledError in an await, GeneratorExit at the yield) once the viewer
\* is gone: the except clause or nothing, then the finally clause.
Cancelled(s) ==
  /\ spc[s] = "waiting"
  /\ ~transport[s]
  /\ Finally(s)
  /\ UNCHANGED <<published, bcast, transport, first_sent, geomVars, runVars>>

SessionStep(s) ==
  \/ SessionOpen(s)
  \/ TransportClose(s)
  \/ GenStart(s)
  \/ AbortBeforeStart(s)
  \/ GetYield(s)
  \/ GetBreak(s)
  \/ Cancelled(s)

----------------------------------------------------------------------------
(* run_full_pipeline: one run per upload.  generate_content is the only    *)
(* await that suspends, so a run moves in steps that each start where a    *)
(* generate_content call returns (or raises) and end where the next call   *)
(* is awaited.  Positions name the call awaited: "idle" (not started),     *)
(* "detect", "style", "unfurnish", "furnish", "interior", "assemble",      *)
(* then "complete" or "failed".                                            *)

\* Uploads, each starting one run, in the concurrent program.
MaxRuns == 2

\* Rooms a detection response may list, and parts an interior-shot response
\* may hold, when a single run is followed in depth (RunSpec).
MaxRooms == 2

MaxParts == 2

\* Rooms a detection response may list when several runs interleave (Spec).
MaxRoomsShared == 1

Runs == 1..MaxRuns

\* The uploaded plan's size (w, h = original_plan_image.size).
PlanSize == [w |-> 8, h |-> 20]

Ev(type, msg, room, n) == [type |-> type, msg |-> msg, room |-> room, n |-> n]

Status(msg, room) == Ev("status", msg, room, 0)

ErrorEv == Ev("error", "", 0, 0)

\* room_id = str(uuid.uuid4())[:8]: one id per room of a run; events that
\* are not about a room carry none.
RoomId(r, k) == IF k > 0 THEN <<r, k>> ELSE <<0, 0>>

\* The envelope stream_event broadcasts for event e of run r: its type and
\* data.  Nothing in the payload names the run; only the room ids differ
\* between two runs' events (the timestamp is left out).
Envelope(r, e) == [type |-> e.type, msg |-> e.msg, id |-> RoomId(r, e.room), n |-> e.n]

RECURSIVE Envelopes(_, _)
Envelopes(r, evs) ==
  IF evs = << >> THEN << >> ELSE <<Envelope(r, Head(evs))>> \o Envelopes(r, Tail(evs))

\* await stream_event(...) for each event of evs, in order.
Emit(r, evs) ==
  /\ ~BroadcastSuspends(queue, active_connections)
  /\ queue' = StreamEvents(queue, active_connections, Envelopes(r, evs))
  /\ log' = [log EXCEPT ![r] = @ \o evs]

\* The run going on to the assembly after its error event.
AfterErrorResumes == "assemble"

\* After the except clause nothing more of the run is done.
AfterError == "failed"

\* An error handler that stops every run in flight, not only its own.
FailStopsEveryRun(r) ==
  /\ Emit(r, <<ErrorEv>>)
  /\ rpc' = [x \in Runs |-> IF rpc[x] \in {"idle", "complete"} /\ x # r THEN rpc[x] ELSE "failed"]
  /\ UNCHANGED <<run_rooms, room_i, furnished, assembly_inputs>>

\* except Exception as e: await stream_event("error", ...); the run is over.
Fail(r) ==
  /\ Emit(r, <<ErrorEv>>)
  /\ rpc' = [rpc EXCEPT ![r] = AfterError]
  /\ UNCHANGED <<run_rooms, room_i, furnished, assembly_inputs>>

\* Detection responses listing up to n entries (a proper box, a degenerate
\* one, an entry without box_2d, an entry with a null coordinate), text that
\* is not a JSON list, or the call raising.
RunEntries ==
  { OkEntry(0, 250, 500, 1000), OkEntry(250, 500, 250, 1000),
    BadEntry("no_box"), BadEntry("null_coord") }

DetectResponses(n) ==
  {[raises |-> FALSE, text |-> [json |-> "list", items |-> l]] : l \in SeqsUpTo(RunEntries, n)}
    \cup {[raises |-> FALSE, text |-> t] : t \in NonListTexts}
    \cup {[raises |-> TRUE, text |-> BadJsonText]}

\* Interior-shot responses of up to n parts: each part is an image (TRUE) or
\* not (FALSE).
PartLists(n) == SeqsUpTo(BOOLEAN, n)

\* The task starts: Image.open(...).convert("RGB"), then the "Step 1" status
\* and the detection call.  Runs are numbered in the order they start.
RunStart(r, opens) ==
  /\ rpc[r] = "idle"
  /\ \A t \in Runs : t < r => rpc[t] # "idle"
  /\ IF opens
       THEN /\ Emit(r, <<Status("Step 1", 0)>>)
            /\ rpc' = [rpc EXCEPT ![r] = "detect"]
            /\ UNCHANGED <<run_rooms, room_i, furnished, assembly_inputs>>
       ELSE Fail(r)
  /\ UNCHANGED <<active_connections, raised, published, bcast, geomVars, sessVars>>

\* room_detected events in reverse order of detection.
RECURSIVE RoomDetectedEventsReversed(_, _)
RoomDetectedEventsReversed(k, n) ==
  IF k > n THEN << >> ELSE RoomDetectedEventsReversed(k + 1, n) \o <<Ev("room_detected", "", k, 0)>>

\* for rd in room_detections: one room_detected per room, in list order.
RECURSIVE RoomDetectedEvents(_, _)
RoomDetectedEvents(k, n) ==
  IF k > n THEN << >> ELSE <<Ev("room_detected", "", k, 0)>> \o RoomDetectedEvents(k + 1, n)

\* The detection call returns: parse_room_data, one room_detected per room,
\* the "Step 2" status, then the style call.  An exception of the call or of
\* parse_room_data goes to the except clause.
DetectReturn(r, resp) ==
  /\ rpc[r] = "detect"
  /\ IF resp.raises \/ parse_room_data(resp.text, PlanSize.h, PlanSize.w, DefaultExpandPercent).exc # "none"
       THEN Fail(r)
       ELSE LET rms == parse_room_data(resp.text, PlanSize.h, PlanSize.w, DefaultExpandPercent).rooms
            IN  /\ run_rooms' = [run_rooms EXCEPT ![r] = rms]
                /\ Emit(r, RoomDetectedEvents(1, Len(rms)) \o <<Status("Step 2", 0)>>)
                /\ rpc' = [rpc EXCEPT ![r] = "style"]
                /\ UNCHANGED <<room_i, furnished, assembly_inputs>>
  /\ UNCHANGED <<active_connections, raised, published, bcast, geomVars, sessVars>>

\* The image inputs of the assembly call: original_plan_image, then the
\* furnished image of every room that has one, in room order.
AssemblyParts(n, frn) ==
  [plan |-> TRUE, furnished |-> SelectSeq([k \in 1..n |-> k], LAMBDA k : k \in frn)]

NoAssembly == [plan |-> FALSE, furnished |-> << >>]

\* The per-room loop running one iteration too many.
EnterRoomOffByOne(r, pre, k, frn) ==
  IF k <= Len(run_rooms[r]) + 1
    THEN /\ Emit(r, pre \o <<Status("Processing room", k)>>)
         /\ rpc' = [rpc EXCEPT ![r] = "unfurnish"]
         /\ room_i' = [room_i EXCEPT ![r] = k]
         /\ UNCHANGED assembly_inputs
    ELSE /\ Emit(r, pre \o <<Status("Step 5", 0)>>)
         /\ rpc' = [rpc EXCEPT ![r] = "assemble"]
         /\ room_i' = [room_i EXCEPT ![r] = 0]
         /\ assembly_inputs' = [assembly_inputs EXCEPT ![r] = AssemblyParts(Len(run_rooms[r]), frn)]

\* `for room in rooms` reaches its k-th iteration, or ends, after the events
\* pre of the step so far: the room's status and unfurnished call, or the
\* "Step 5" status and the assembly call.
EnterRoom(r, pre, k, frn) ==
  IF k <= Len(run_rooms[r])
    THEN /\ Emit(r, pre \o <<Status("Processing room", k)>>)
         /\ rpc' = [rpc EXCEPT ![r] = "unfurnish"]
         /\ room_i' = [room_i EXCEPT ![r] = k]
         /\ UNCHANGED assembly_inputs
    ELSE /\ Emit(r, pre \o <<Status("Step 5", 0)>>)
         /\ rpc' = [rpc EXCEPT ![r] = "assemble"]
         /\ room_i' = [room_i EXCEPT ![r] = 0]
         /\ assembly_inputs' = [assembly_inputs EXCEPT ![r] = AssemblyParts(Len(run_rooms[r]), frn)]

\* The style call returns: style_description, then the first room or the
\* assembly.
StyleReturn(r, ok) ==
  /\ rpc[r] = "style"
  /\ IF ok
       THEN /\ EnterRoom(r, <<Ev("style_description", "", 0, 0)>>, 1, furnished[r])
            /\ UNCHANGED <<run_rooms, furnished>>
       ELSE Fail(r)
  /\ UNCHANGED <<active_connections, raised, published, bcast, geomVars, sessVars>>

\* The unfurnished call returns: unfurnished_view, then the furnish call.
UnfurnishReturn(r, ok) ==
  /\ rpc[r] = "unfurnish"
  /\ IF ok
       THEN /\ Emit(r, <<Ev("unfurnished_view", "", room_i[r], 0)>>)
            /\ rpc' = [rpc EXCEPT ![r] = "furnish"]
            /\ UNCHANGED <<run_rooms, room_i, furnished, assembly_inputs>>
       ELSE Fail(r)
  /\ UNCHANGED <<active_connections, raised, published, bcast, geomVars, sessVars>>

\* The furnish call returns: room["furnished_iso_img"] is set, furnished_view,
\* then the interior-shot call.
FurnishReturn(r, ok) ==
  /\ rpc[r] = "furnish"
  /\ IF ok
       THEN /\ furnished' = [furnished EXCEPT ![r] = @ \cup {room_i[r]}]
            /\ Emit(r, <<Ev("furnished_view", "", room_i[r], 0)>>)
            /\ rpc' = [rpc EXCEPT ![r] = "interior"]
            /\ UNCHANGED <<run_rooms, room_i, assembly_inputs>>
       ELSE Fail(r)
  /\ UNCHANGED <<active_connections, raised, published, bcast, geomVars, sessVars>>

\* for i, part in enumerate(response.parts): one interior_shot per part that
\* is an image, titled "Interior Shot {i+1}".
RECURSIVE InteriorEvents(_, _, _)
InteriorEvents(room, parts, i) ==
  IF i > Len(parts) THEN << >>
  ELSE (IF parts[i] THEN <<Ev("interior_shot", "", room, i)>> ELSE << >>)
         \o InteriorEvents(room, parts, i + 1)

\* The interior-shot call returns: the room's interior_shot events, then the
\* next room or the assembly.
InteriorReturn(r, ok, parts) ==
  /\ rpc[r] = "interior"
  /\ IF ok
       THEN /\ EnterRoom(r, InteriorEvents(room_i[r], parts, 1), room_i[r] + 1, furnished[r])
            /\ UNCHANGED <<run_rooms, furnished>>
       ELSE Fail(r)
  /\ UNCHANGED <<active_connections, raised, published, bcast, geomVars, sessVars>>

\* The assembly call returns: final_assembly, then the closing status.
AssembleReturn(r, ok) ==
  /\ rpc[r] = "assemble"
  /\ IF ok
       THEN /\ Emit(r, <<Ev("final_assembly", "", 0, 0), Status("Pipeline complete!", 0)>>)
            /\ rpc' = [rpc EXCEPT ![r] = "complete"]
            /\ UNCHANGED <<run_rooms, room_i, furnished, assembly_inputs>>
       ELSE Fail(r)
  /\ UNCHANGED <<active_connections, raised, published, bcast, geomVars, sessVars>>

\* A generate_content call of run r returns or raises, its response drawn
\* from resps (detection) and plists (interior shots).
RunReturnOver(r, resps, plists) ==
  \/ \E resp \in resps : DetectReturn(r, resp)
  \/ \E ok \in BOOLEAN : StyleReturn(r, ok)
  \/ \E ok \in BOOLEAN : UnfurnishReturn(r, ok)
  \/ \E ok \in BOOLEAN : FurnishReturn(r, ok)
  \/ \E ok \in BOOLEAN, parts \in plists : InteriorReturn(r, ok, parts)
  \/ \E ok \in BOOLEAN : AssembleReturn(r, ok)

\* Any step of run r.
RunStepOver(r, resps, plists) ==
  \/ \E opens \in BOOLEAN : RunStart(r, opens)
  \/ RunReturnOver(r, resps, plists)

\* When several runs interleave every interior-shot response is one image.
SharedPartLists == {<<TRUE>>}

RunReturn(r) == RunReturnOver(r, DetectResponses(MaxRoomsShared), SharedPartLists)

RunStep(r) == RunStepOver(r, DetectResponses(MaxRoomsShared), SharedPartLists)

DeepRunReturn(r) == RunReturnOver(r, DetectResponses(MaxRooms), PartLists(MaxParts))

DeepRunStep(r) == RunStepOver(r, DetectResponses(MaxRooms), PartLists(MaxParts))

----------------------------------------------------------------------------
(* Specifications.                                                         *)

BusIdle ==
  /\ active_connections = << >>
  /\ queue = << >>
  /\ raised = "none"
  /\ published = << >>
  /\ bcast = [p \in Producers |-> NoBroadcast]

SessIdle ==
  /\ spc = [s \in Sessions |-> "idle"]
  /\ transport = [s \in Sessions |-> FALSE]
  /\ first_sent = [s \in Sessions |-> NothingSent]

RunIdle ==
  /\ rpc = [r \in Runs |-> "idle"]
  /\ run_rooms = [r \in Runs |-> << >>]
  /\ room_i = [r \in Runs |-> 0]
  /\ furnished = [r \in Runs |-> {}]
  /\ assembly_inputs = [r \in Runs |-> NoAssembly]
  /\ log = [r \in Runs |-> << >>]

\* The program after start-up: manager = ConnectionManager(), no request yet.
Init == GeomIdle /\ BusIdle /\ SessIdle /\ RunIdle

\* The program: viewers come and go while uploads run their pipelines.
Next ==
  \/ \E s \in Viewers : SessionStep(s)
  \/ \E r \in Runs : RunStep(r)

Spec == Init /\ [][Next]_vars

\* One upload followed in depth, with the viewers.
RunNext ==
  \/ \E s \in Viewers : SessionStep(s)
  \/ DeepRunStep(1)

RunSpec == Init /\ [][RunNext]_vars

\* The event loop resumes a run whenever the call it awaits has returned, and
\* every generate_content call is taken to return or raise.
LiveRunSpec == RunSpec /\ WF_vars(DeepRunReturn(1))

\* The sessions followed on their own: stream_event is called by any producer.
BusNext ==
  \/ \E s \in Sessions : SessionStep(s)
  \/ \E d \in Payloads : Publish(d)

BusSpec == Init /\ [][BusNext]_vars

\* The event loop resumes a session's generator whenever it can go on, and
\* the server cancels a started generator whose viewer is gone.
LiveBusSpec ==
  BusSpec /\ \A s \in Sessions :
    WF_vars(GenStart(s) \/ GetYield(s) \/ GetBreak(s) \/ Cancelled(s))

\* The sessions and the tasks whose broadcast calls are followed put by
\* put.  The viewer's connection can go away at any moment; the steps of
\* the session tasks wait for the event loop.
LoopNext ==
  \/ \E p \in Producers, d \in Payloads : BroadcastBegin(p, d)
  \/ \E p \in Producers : BroadcastPut(p)
  \/ \E p \in Producers : BroadcastEnd(p)
  \/ \E s \in Sessions : TransportClose(s)
  \/ \E s \in Sessions :
       /\ TaskSwitch(0)
       /\ (SessionOpen(s) \/ GenStart(s) \/ AbortBeforeStart(s) \/ GetYield(s)
             \/ GetBreak(s) \/ Cancelled(s))

LoopSpec == Init /\ [][LoopNext]_vars

\* The ConnectionManager alone, its three methods called in any order.
ApiNext ==
  \/ Subscribe
  \/ \E q \in 1..MaxQueues : Unsubscribe(q)
  \/ \E d \in Payloads : Publish(d)

ApiSpec == Init /\ [][ApiNext]_vars

\* One call of parse_room_data on each bounded input.
GeomInit ==
  /\ predicted_str \in DetectionTexts
  /\ img_height \in Dims
  /\ img_width \in Dims
  /\ expand_percent \in ExpandPercents
  /\ items = << >>
  /\ idx = 0
  /\ rooms = << >>
  /\ ppc = "start"
  /\ BusIdle /\ SessIdle /\ RunIdle

GeomNext ==
  \/ ParseBegin
  \/ ParseStep
  \/ ParseReturn

GeomSpec == GeomInit /\ [][GeomNext]_vars

----------------------------------------------------------------------------
(* Properties of the ConnectionManager (ApiSpec) and of the sessions        *)
(* (BusSpec).                                                              *)

\* What queue q must hold: the data of every broadcast made while q was
\* registered, in broadcast order.
DeliveredTo(q) ==
  LET sel == SelectSeq(published, LAMBDA p : q \in p.regs)
  IN  [i \in 1..Len(sel) |-> sel[i].data]

\* C1: for any interleaving of connect, disconnect and broadcast, every queue
\* holds exactly the envelopes broadcast while it was registered, one copy of
\* each, in broadcast order; a queue registered after a broadcast never
\* receives that envelope.
C1_FanOutInPublishOrder == \A q \in DOMAIN queue : queue[q] = DeliveredTo(q)

\* C1 witness: two registered queues, the older holding two different
\* envelopes in order, the newer (registered after the first broadcast)
\* holding only the second.
C1_LateSubscriberSeen ==
  /\ Len(active_connections) = 2
  /\ queue[active_connections[1]] = <<"e1", "e2">>
  /\ queue[active_connections[2]] = <<"e2">>

\* C2 (as claimed): manager.disconnect never raises, whatever queue it is
\* given: removing a queue that is not registered is a no-op.
C2_DisconnectNeverRaises == raised = "none"

\* C3 (as claimed): the registry holds no queue of a session that is over.
C3_NoQueueOfFinishedSession ==
  \A s \in Sessions : spc[s] = "done" => s \notin Range(active_connections)

----------------------------------------------------------------------------
(* Properties of the pipeline run (RunSpec, LiveRunSpec, Spec).            *)

Last(l) == l[Len(l)]

CompleteEv == Status("Pipeline complete!", 0)

Count(l, type) == Len(SelectSeq(l, LAMBDA e : e.type = type))

\* The run has emitted its terminal event and does nothing more.
RunOver(r) ==
  /\ rpc[r] \in {"complete", "failed"}
  /\ log[r] # << >>
  /\ Last(log[r]) \in {CompleteEv, ErrorEv}

\* C4: every run that has started eventually emits its terminal event (the
\* closing status or an error event), whatever the viewers do: with none
\* registered, or with one that never takes anything from its queue.
C4_RunReachesTerminalEvent == \A r \in Runs : (rpc[r] # "idle") ~> RunOver(r)

\* C4 witness: a run of two rooms is complete while a registered viewer has
\* consumed nothing: its queue holds every event of the run.
C4_CompleteWithIdleViewer ==
  /\ rpc[1] = "complete"
  /\ Len(run_rooms[1]) = 2
  /\ \E s \in Viewers : /\ spc[s] = "waiting"
                        /\ s \in Range(active_connections)
                        /\ Len(queue[s]) = Len(log[1])

\* Place of an event in the stage order (0: progress statuses and errors,
\* which the order does not rank).
StageRank(e) ==
  CASE e.type = "room_detected"     -> 1000 + e.room
    [] e.type = "style_description" -> 2000
    [] e.type = "unfurnished_view"  -> 3000 + 10 * e.room + 1
    [] e.type = "furnished_view"    -> 3000 + 10 * e.room + 2
    [] e.type = "interior_shot"     -> 3000 + 10 * e.room + 3
    [] e.type = "final_assembly"    -> 4000
    [] e = CompleteEv               -> 5000
    [] OTHER                        -> 0

\* No ranked event follows one of a later place; only interior shots of one
\* room share a place, and they come in index order.
InStageOrder(l) ==
  \A i, j \in 1..Len(l) :
    (i < j /\ StageRank(l[i]) > 0 /\ StageRank(l[j]) > 0) =>
      \/ StageRank(l[i]) < StageRank(l[j])
      \/ /\ StageRank(l[i]) = StageRank(l[j])
         /\ l[i].type = "interior_shot"
         /\ l[i].n < l[j].n

\* The ranked events other than interior shots of a complete run of n rooms.
Skeleton(n) ==
  [k \in 1..n |-> Ev("room_detected", "", k, 0)]
    \o <<Ev("style_description", "", 0, 0)>>
    \o [i \in 1..(2 * n) |->
          IF i % 2 = 1 THEN Ev("unfurnished_view", "", (i + 1) \div 2, 0)
                       ELSE Ev("furnished_view", "", i \div 2, 0)]
    \o <<Ev("final_assembly", "", 0, 0), CompleteEv>>

HasFullSequence(r) ==
  SelectSeq(log[r], LAMBDA e : StageRank(e) > 0 /\ e.type # "interior_shot")
    = Skeleton(Len(run_rooms[r]))

\* C5: a run emits its events in stage order: room_detected per room in
\* detection order, style_description, then room by room one
\* unfurnished_view, one furnished_view and the interior shots, then
\* final_assembly and the closing status; a complete run has emitted each of
\* them exactly once.
C5_EventsInStageOrder ==
  /\ InStageOrder(log[1])
  /\ rpc[1] = "complete" => HasFullSequence(1)

\* C5 witness: a complete run of two rooms, each with an interior shot.
C5_TwoRoomsComplete ==
  /\ rpc[1] = "complete"
  /\ Len(run_rooms[1]) = 2
  /\ \A k \in 1..2 : \E i \in 1..Len(log[1]) :
       log[1][i].type = "interior_shot" /\ log[1][i].room = k

\* C6: a run that fails emits exactly one error event, as its last event;
\* no run emits an error without failing, two errors, or both an error and
\* the closing status.
C6_OneErrorThenNothing ==
  \A r \in Runs :
    /\ Count(log[r], "error") <= 1
    /\ rpc[r] = "failed" <=> Count(log[r], "error") = 1
    /\ Count(log[r], "error") = 1 =>
         /\ Last(log[r]) = ErrorEv
         /\ \A i \in 1..Len(log[r]) : log[r][i] # CompleteEv

\* C6 witness: a run that failed in a late stage, after a furnished view.
C6_FailedLate ==
  /\ rpc[1] = "failed"
  /\ Count(log[1], "furnished_view") = 1

\* The detection step of run r ended without error and found no room.
DetectedNoRoom(r) ==
  /\ \E i \in 1..Len(log[r]) : log[r][i] = Status("Step 2", 0)
  /\ run_rooms[r] = << >>

ZeroRoomLog ==
  <<Status("Step 1", 0), Status("Step 2", 0), Ev("style_description", "", 0, 0),
    Status("Step 5", 0), Ev("final_assembly", "", 0, 0), CompleteEv>>

\* C7: a run whose detection finds no room goes on without error: no
\* room_detected and no per-room event, style_description, an assembly call
\* whose only image input is the original plan, final_assembly and the
\* closing status; only a failing style or assembly call ends it early.
C7_ZeroRoomsRunsThrough ==
  DetectedNoRoom(1) =>
    /\ rpc[1] \in {"style", "assemble", "complete", "failed"}
    /\ rpc[1] = "style" => log[1] = SubSeq(ZeroRoomLog, 1, 2)
    /\ rpc[1] = "assemble" =>
         /\ log[1] = SubSeq(ZeroRoomLog, 1, 4)
         /\ assembly_inputs[1] = [plan |-> TRUE, furnished |-> << >>]
    /\ rpc[1] = "complete" =>
         /\ log[1] = ZeroRoomLog
         /\ assembly_inputs[1] = [plan |-> TRUE, furnished |-> << >>]
    /\ rpc[1] = "failed" =>
         log[1] \in {SubSeq(ZeroRoomLog, 1, 2) \o <<ErrorEv>>, SubSeq(ZeroRoomLog, 1, 4) \o <<ErrorEv>>}

\* C7 witness: a complete run that detected no room.
C7_ZeroRoomsComplete == rpc[1] = "complete" /\ run_rooms[1] = << >>

\* The step in which run r fails.
Fails(r) == rpc[r] # "failed" /\ rpc'[r] = "failed"

\* C8: with runs interleaved, the step in which one run fails changes no
\* other run, no session and not the registry; next to a failed run every
\* other run that awaits a call can still take its step, and one that is
\* complete has emitted its full sequence.
C8_FailureStopsOnlyItsRun ==
  /\ [][\A r \in Runs : Fails(r) =>
          /\ \A o \in Runs \ {r} :
               /\ rpc'[o] = rpc[o]
               /\ log'[o] = log[o]
               /\ run_rooms'[o] = run_rooms[o]
               /\ room_i'[o] = room_i[o]
               /\ furnished'[o] = furnished[o]
               /\ assembly_inputs'[o] = assembly_inputs[o]
          /\ spc' = spc
          /\ transport' = transport
          /\ active_connections' = active_connections]_vars
  /\ [](\A r \in Runs, o \in Runs :
          (rpc[r] = "failed" /\ o # r) =>
            /\ rpc[o] \notin {"idle", "complete", "failed"} => ENABLED RunReturn(o)
            /\ rpc[o] = "complete" => HasFullSequence(o))

\* C8 witness: one run failed after its first room's views, the other ran
\* to completion with a room, and the viewer is still registered.
C8_OneFailedOtherComplete ==
  \E r \in Runs, o \in Runs :
    /\ rpc[r] = "failed"
    /\ Count(log[r], "unfurnished_view") = 1
    /\ rpc[o] = "complete"
    /\ Len(run_rooms[o]) = 1
    /\ \E s \in Viewers : spc[s] = "waiting" /\ s \in Range(active_connections)

----------------------------------------------------------------------------
(* Properties of parse_room_data (GeomSpec).                               *)

\* The entry is an object whose box_2d holds four coordinates in 0..1000.
InScale(item) ==
  /\ item.kind = "ok"
  /\ \A i \in 1..4 : item.box_2d[i] \in 0..NormScale

\* The entry's box, rescaled to an h by w image, has y0 < y1 and x0 < x1.
ProperAfterRescale(item, h, w) ==
  /\ Rescale(item.box_2d[1], h) < Rescale(item.box_2d[3], h)
  /\ Rescale(item.box_2d[2], w) < Rescale(item.box_2d[4], w)

\* The loop is about to process an entry in scale whose rescaled box is proper.
AtProperEntry ==
  /\ ppc = "loop"
  /\ idx < Len(items)
  /\ InScale(items[idx + 1])
  /\ ProperAfterRescale(items[idx + 1], img_height, img_width)

\* The iteration appended exactly one room, with x in xs and y in ys.
AppendedRoomWithin(xs, ys) ==
  /\ Len(rooms') = Len(rooms) + 1
  /\ SubSeq(rooms', 1, Len(rooms)) = rooms
  /\ rooms'[Len(rooms')].x0 \in xs
  /\ rooms'[Len(rooms')].x1 \in xs
  /\ rooms'[Len(rooms')].y0 \in ys
  /\ rooms'[Len(rooms')].y1 \in ys

C10_RoomsNeverDegenerate ==
  \A i \in 1..Len(rooms) : rooms[i].x0 < rooms[i].x1 /\ rooms[i].y0 < rooms[i].y1

\* The entries of its that pass structural validation, in order.
ValidEntries(its) == SelectSeq(its, LAMBDA e : e.kind = "ok")

\* C11 (as claimed): on a list of detections, entries that fail structural
\* validation are skipped one by one: parse_room_data raises nothing to its
\* caller, and what it returns is the rooms of the valid entries.
C11_InvalidEntriesSkipped ==
  predicted_str.json = "list" =>
    /\ ppc # "raised"
    /\ ppc = "returned" =>
         rooms = RoomsOf(ValidEntries(items), img_height, img_width, expand_percent).rooms

\* The entries of its that are valid and whose rescaled box is proper, in order.
KeptEntries(its, h, w) ==
  SelectSeq(its, LAMBDA e : e.kind = "ok" /\ ProperAfterRescale(e, h, w))

\* The room of a valid entry: its rescaled box, expanded when p > 0.
RoomOfEntry(e, h, w, p) ==
  LET y0 == Rescale(e.box_2d[1], h)
      x0 == Rescale(e.box_2d[2], w)
      y1 == Rescale(e.box_2d[3], h)
      x1 == Rescale(e.box_2d[4], w)
  IN  IF p > 0
        THEN [y0 |-> ExpandLo(y0, y1, p), x0 |-> ExpandLo(x0, x1, p),
              y1 |-> ExpandHi(y0, y1, p, h), x1 |-> ExpandHi(x0, x1, p, w)]
        ELSE [y0 |-> y0, x0 |-> x0, y1 |-> y1, x1 |-> x1]

\* C12: the rooms built are, one for one and in input order, the rooms of
\* the entries processed so far that are valid and proper after rescale (the
\* test is on the coordinates before expansion); a degenerate entry adds
\* nothing and the loop goes on; nothing is merged, dropped or reordered.
C12_RoomsAreKeptEntriesInOrder ==
  ppc \in {"loop", "returned"} =>
    LET kept == KeptEntries(SubSeq(items, 1, idx), img_height, img_width)
    IN  /\ Len(rooms) = Len(kept)
        /\ \A i \in 1..Len(kept) :
             rooms[i] = RoomOfEntry(kept[i], img_height, img_width, expand_percent)

\* C12 witness: a degenerate entry followed by a proper one; the call has
\* returned the one room of the second entry.
C12_DegenerateThenProper ==
  /\ ppc = "returned"
  /\ Len(items) = 2
  /\ items[1].kind = "ok"
  /\ ~ProperAfterRescale(items[1], img_height, img_width)
  /\ items[2].kind = "ok"
  /\ ProperAfterRescale(items[2], img_height, img_width)
  /\ Len(rooms) = 1

\* Python's round(c / 1000 * dim) for c >= 0: the nearest integer, a tie
\* going to the even one.
Round(c, dim) ==
  LET q == (c * dim) \div NormScale
      twice == 2 * (c * dim - q * NormScale)
  IN  IF twice > NormScale \/ (twice = NormScale /\ q % 2 = 1) THEN q + 1 ELSE q

\* C13 (as claimed): with expand_percent = 0, the room of an entry in scale
\* has the coordinates round(normalized / 1000 * dimension).
C13_RescaleRounds ==
  (ppc \in {"loop", "returned"} /\ expand_percent = 0) =>
    LET kept == KeptEntries(SubSeq(items, 1, idx), img_height, img_width)
    IN  \A i \in 1..Len(kept) :
          (InScale(kept[i]) /\ i <= Len(rooms)) =>
            rooms[i] = [y0 |-> Round(kept[i].box_2d[1], img_height),
                        x0 |-> Round(kept[i].box_2d[2], img_width),
                        y1 |-> Round(kept[i].box_2d[3], img_height),
                        x1 |-> Round(kept[i].box_2d[4], img_width)]

\* The room lies strictly inside [lo', hi'] = [0, dim] on one axis, so neither
\* max(0, ...) nor min(dim, ...) changed an edge, and the low edge moved out
\* by as much as the high edge: lo - lo' = hi' - hi.
GrownEvenly(lo, hi, newLo, newHi, dim) ==
  (newLo > 0 /\ newHi < dim) => (lo - newLo = newHi - hi)

\* C14 (as claimed): with expand_percent > 0, a room none of whose edges is
\* clamped has grown by the same number of pixels on the left as on the
\* right, and on the top as on the bottom.
C14_ExpansionSymmetric ==
  (ppc \in {"loop", "returned"} /\ expand_percent > 0) =>
    LET kept == KeptEntries(SubSeq(items, 1, idx), img_height, img_width)
    IN  \A i \in 1..Len(kept) :
          i <= Len(rooms) =>
            /\ GrownEvenly(Rescale(kept[i].box_2d[2], img_width),
                           Rescale(kept[i].box_2d[4], img_width),
                           rooms[i].x0, rooms[i].x1, img_width)
            /\ GrownEvenly(Rescale(kept[i].box_2d[1], img_height),
                           Rescale(kept[i].box_2d[3], img_height),
                           rooms[i].y0, rooms[i].y1, img_height)

----------------------------------------------------------------------------
(* Detection text that is not a list of detections (RunSpec).              *)

\* C15 (as claimed): when the detection call returns text that cannot be
\* parsed as a list of detections (invalid JSON, or a top-level value that is
\* not a list), the run keeps no room, emits no error event and goes on to
\* the style call.
C15_UnparseableTextGoesToStyle ==
  [][\A t \in NonListTexts :
       DetectReturn(1, [raises |-> FALSE, text |-> t]) =>
         /\ rpc'[1] = "style"
         /\ run_rooms'[1] = << >>
         /\ Count(log'[1], "error") = 0]_vars

----------------------------------------------------------------------------
(* The connection confirmation of a stream session (BusSpec).              *)

\* C16: the first item a session's generator yields is the connection
\* confirmation, nothing is yielded before the generator starts, and the
\* confirmation is never on the bus: no queue holds it and no broadcast
\* carried it.
C16_ConnectedFirstAndOffBus ==
  /\ \A s \in Sessions :
       /\ first_sent[s].sent => first_sent[s].data = ConnectedMsg
       /\ spc[s] \in {"idle", "connected"} => ~first_sent[s].sent
  /\ \A q \in DOMAIN queue : \A i \in 1..Len(queue[q]) : queue[q][i] # ConnectedMsg
  /\ \A i \in 1..Len(published) : published[i].data # ConnectedMsg

\* C16 witness: a session yielded the confirmation first although an
\* envelope published after its subscribe was already in its queue, while
\* another session was registered.
C16_AckAheadOfQueuedEnvelope ==
  \E s \in Sessions :
    /\ first_sent[s].sent
    /\ first_sent[s].pending
    /\ first_sent[s].data = ConnectedMsg
    /\ \E t \in Sessions : t # s /\ t \in Range(active_connections)

----------------------------------------------------------------------------
(* A broadcast and the registry (LoopSpec).                                *)

\* C17: while a broadcast call runs, the registry is the one it met when it
\* began and every queue it has put to was registered then, once each; when
\* its loop is over it has put to exactly those queues.  No connect or
\* disconnect takes effect in between.
C17_BroadcastMeetsOneRegistry ==
  \A p \in Producers :
    bcast[p].active =>
      /\ Range(active_connections) = bcast[p].regs
      /\ Range(bcast[p].got) \subseteq bcast[p].regs
      /\ Cardinality(Range(bcast[p].got)) = Len(bcast[p].got)
      /\ bcast[p].i >= Len(active_connections) => Range(bcast[p].got) = bcast[p].regs

\* C17 witness: a broadcast has put to every registered queue, after an
\* earlier broadcast that met another registry: one session has come and
\* gone and another has subscribed in between.
C17_BroadcastOverChangedRegistry ==
  \E p \in Producers :
    /\ bcast[p].active
    /\ bcast[p].i = Len(active_connections)
    /\ Len(bcast[p].got) = 1
    /\ Len(published) >= 1
    /\ published[1].regs # {}
    /\ published[1].regs # bcast[p].regs
    /\ \E s \in Sessions : spc[s] = "done"

----------------------------------------------------------------------------
(* A viewer that has gone away (LiveBusSpec).                              *)

\* C18 (as claimed): once the transport of a session has disconnected, the
\* session's queue eventually leaves the registry, whether or not anything
\* is published afterwards.
C18_DisconnectedSessionUnsubscribes ==
  \A s \in Sessions :
    (spc[s] \in {"connected", "waiting"} /\ ~transport[s]) ~> (s \notin Range(active_connections))

----------------------------------------------------------------------------
(* Interior shots of a room (RunSpec).                                     *)

\* The interior_shot events run r has emitted for its room k, in order.
InteriorShots(r, k) ==
  SelectSeq(log[r], LAMBDA e : e.type = "interior_shot" /\ e.room = k)

\* C19 (as claimed): the interior_shot events of a room are numbered 1, 2,
\* ... in the order they are emitted; a part that is not an image takes no
\* number.
C19_InteriorShotsNumberedFromOne ==
  \A k \in 1..MaxRooms :
    \A j \in 1..Len(InteriorShots(1, k)) : InteriorShots(1, k)[j].n = j

----------------------------------------------------------------------------
(* One interleaving for every subscriber (LoopSpec).                       *)

\* The place of envelope a in queue q.
PlaceIn(q, a) == CHOOSE i \in 1..Len(queue[q]) : queue[q][i] = a

\* C20: two queues that both hold the same two envelopes hold them in the
\* same order, whichever tasks broadcast them.
C20_SubscribersAgreeOnOrder ==
  \A q1 \in DOMAIN queue, q2 \in DOMAIN queue :
    \A a \in Range(queue[q1]) \cap Range(queue[q2]) :
      \A b \in Range(queue[q1]) \cap Range(queue[q2]) :
        (PlaceIn(q1, a) < PlaceIn(q1, b)) <=> (PlaceIn(q2, a) < PlaceIn(q2, b))

\* C20 witness: two registered queues each hold the envelope one task
\* broadcast followed by the envelope another task has just put to both.
C20_TwoTasksTwoSubscribers ==
  \E p \in Producers :
    /\ Len(active_connections) = 2
    /\ Len(published) = 1
    /\ published[1].by # p
    /\ bcast[p].active
    /\ bcast[p].i = 2
    /\ \A q \in Range(active_connections) : queue[q] = <<published[1].data, bcast[p].data>>

====
